---- MODULE Spec2Model ----
(***************************************************************************)
(* A model of emgrad: the operator cache (emgrad/operators.py), the device *)
(* layer (emgrad/_backends.py), scoped execution on a device as used by    *)
(* the random factories (emgrad/autograd/random/_base.py), and the reverse *)
(* traversal of the autograd engine.                                       *)
(*                                                                         *)
(* Python values are records carrying a tag, so that values of different   *)
(* Python types can be compared.  A Python str is the sequence of its      *)
(* characters (one-character strings); an Optional[int] is a sequence of   *)
(* length 0 (None) or 1.                                                   *)
(***************************************************************************)
EXTENDS Integers, Sequences, FiniteSets, TLC

VARIABLES
    \* ---- the machine the program runs on (fixed during a run)
    cupyInstalled,   \* `import cupy` succeeded: _CUDA_BACKEND is not None
    deviceCount,     \* cupy.cuda.runtime.getDeviceCount()
    \* ---- one Op instance (operators.py)
    cache,           \* Op._cache
    opCall,          \* the last call made on the Op and what it returned
    lastSaved,       \* the arguments of the most recent save_to_cache
    sinceSave,       \* successful retrieve_from_cache calls since that save
    \* ---- Device(descriptor) and Device(str(d))
    descriptor,      \* the string handed to parse_device
    parsed,          \* what parse_device returned or raised
    reparsed,        \* what Device(str(parsed)) returned or raised
    \* ---- Device objects and their comparison
    objs,            \* the Python objects constructed so far
    eqResult,        \* the last a == b evaluated
    \* ---- the device the nn initialisers use
    nnDevice,        \* _NN_DEVICE
    requested,       \* the argument of the last set_nn_device
    \* ---- move_to_device
    moveCall,        \* the last move_to_device call and its outcome
    \* ---- scoped execution (`with device:`)
    current,         \* the CUDA runtime's current device of the thread
    deviceStack,     \* cupy's thread-local stack of devices to return to
    frames,          \* the `with device:` blocks the thread is inside
    exc,             \* an exception is propagating
    lastExit,        \* the ambient device before the entry and after the exit
                     \* of the scope left last
    \* ---- the autograd engine
    parents,         \* node -> the tensors its creator_op consumed
    reqGrad,         \* node -> requires_grad
    phase,           \* "build" | "ordered" | "done"
    topo,            \* the traversal order, terminal first
    pos,             \* the next position of topo to propagate from
    pending,         \* node -> the gradient accumulated for it so far
    grad,            \* node -> Tensor.grad
    bwCount          \* node -> how often its creator_op.backward was invoked

envVars   == <<cupyInstalled, deviceCount>>
opVars    == <<cache, opCall, lastSaved, sinceSave>>
parseVars == <<descriptor, parsed, reparsed>>
eqVars    == <<objs, eqResult>>
nnVars    == <<nnDevice, requested>>
moveVars  == <<moveCall>>
scopeVars == <<current, deviceStack, frames, exc, lastExit>>
gradVars  == <<parents, reqGrad, phase, topo, pos, pending, grad, bwCount>>
vars == <<envVars, opVars, parseVars, eqVars, nnVars, moveVars, scopeVars, gradVars>>

(***************************************************************************)
(* Bounds of the model.                                                    *)
(***************************************************************************)
MaxArgs == 2      \* arguments of one save_to_cache call
MaxSuffix == 2    \* characters following the head of a descriptor
MaxCuda == 2      \* accelerators of the machine
MaxObjs == 3      \* objects constructed in the comparison model
MaxDepth == 2     \* nesting of `with device:` blocks
NumNodes == 4     \* tensors of a recorded graph

None == [tag |-> "None"]
Raised(e) == [tag |-> e]

(***************************************************************************)
(* emgrad/operators.py: class Op                                           *)
(***************************************************************************)
Values == {"x", "y", "z"}
ArgTuples == UNION {[1..n -> Values] : n \in 0..MaxArgs}
Tuple(args) == [tag |-> "tuple", val |-> args]

\* A variant of save_to_cache that keeps what a filled cache holds.
save_to_cache_keep(args) ==
    /\ cache' = IF cache = None THEN Tuple(args) ELSE cache
    /\ opCall' = [name |-> "save", args |-> Tuple(args), pre |-> cache, ret |-> None]
    /\ lastSaved' = Tuple(args)
    /\ sinceSave' = 0

\* def save_to_cache(self, *args): self._cache = args
save_to_cache(args) ==
    /\ cache' = Tuple(args)
    /\ opCall' = [name |-> "save", args |-> Tuple(args), pre |-> cache, ret |-> None]
    /\ lastSaved' = Tuple(args)
    /\ sinceSave' = 0

\* A variant of retrieve_from_cache that leaves the values in the cache.
retrieve_from_cache_peek ==
    /\ IF cache = None
       THEN /\ opCall' = [name |-> "retrieve", args |-> None, pre |-> cache,
                          ret |-> Raised("AssertionError")]
            /\ UNCHANGED <<cache, sinceSave>>
       ELSE /\ opCall' = [name |-> "retrieve", args |-> None, pre |-> cache,
                          ret |-> cache]
            /\ sinceSave' = sinceSave + 1
            /\ UNCHANGED cache
    /\ UNCHANGED lastSaved

\* def retrieve_from_cache(self):
\*     assert self._cache is not None
\*     values, self._cache = self._cache, None
\*     return values
retrieve_from_cache ==
    /\ IF cache = None
       THEN /\ opCall' = [name |-> "retrieve", args |-> None, pre |-> cache,
                          ret |-> Raised("AssertionError")]
            /\ UNCHANGED <<cache, sinceSave>>
       ELSE /\ opCall' = [name |-> "retrieve", args |-> None, pre |-> cache,
                          ret |-> cache]
            /\ cache' = None
            /\ sinceSave' = sinceSave + 1
    /\ UNCHANGED lastSaved

\* Op.__init__: self._cache = None
OpInit ==
    /\ cache = None
    /\ opCall = [name |-> "init", args |-> None, pre |-> None, ret |-> None]
    /\ lastSaved = None
    /\ sinceSave = 0

Save == \E args \in ArgTuples :
    /\ save_to_cache(args)
    /\ UNCHANGED <<envVars, parseVars, eqVars, nnVars, moveVars, scopeVars, gradVars>>

Retrieve ==
    /\ retrieve_from_cache
    /\ UNCHANGED <<envVars, parseVars, eqVars, nnVars, moveVars, scopeVars, gradVars>>

(***************************************************************************)
(* The idle values of the variables a specification does not use.          *)
(***************************************************************************)
NoEnv == cupyInstalled = FALSE /\ deviceCount = 0
NoOp ==
    /\ cache = None
    /\ opCall = None
    /\ lastSaved = None
    /\ sinceSave = 0
NoParse == descriptor = None /\ parsed = None /\ reparsed = None
NoEq == objs = <<>> /\ eqResult = None
NoNN == nnDevice = None /\ requested = None
NoMove == moveCall = None
NoScope ==
    /\ current = 0
    /\ deviceStack = <<>>
    /\ frames = <<>>
    /\ exc = FALSE
    /\ lastExit = None
NoGrad ==
    /\ parents = <<>>
    /\ reqGrad = <<>>
    /\ phase = "none"
    /\ topo = <<>>
    /\ pos = 0
    /\ pending = <<>>
    /\ grad = <<>>
    /\ bwCount = <<>>

(***************************************************************************)
(* The operator cache: any sequence of save_to_cache / retrieve_from_cache *)
(* calls on one Op.                                                        *)
(***************************************************************************)
InitOp == OpInit /\ NoEnv /\ NoParse /\ NoEq /\ NoNN /\ NoMove /\ NoScope /\ NoGrad
NextOp == Save \/ Retrieve
SpecOp == InitOp /\ [][NextOp]_vars

\* C1: retrieve_from_cache fails and leaves the cache empty whenever the cache
\* is empty (a fresh Op, or a second retrieve after one save); a retrieve that
\* succeeds returns the saved values and empties the cache, so that one save
\* supports exactly one retrieve.
C1_RetrieveSingleUse ==
    /\ opCall.name = "retrieve" =>
          /\ cache = None
          /\ (opCall.pre = None) <=> (opCall.ret = Raised("AssertionError"))
          /\ opCall.pre # None => opCall.ret = opCall.pre /\ sinceSave = 1
          /\ lastSaved = None => opCall.ret = Raised("AssertionError")
    /\ sinceSave <= 1

\* A second retrieve after a single save has failed.
C1_Witness ==
    /\ opCall.name = "retrieve"
    /\ opCall.ret = Raised("AssertionError")
    /\ sinceSave = 1
    /\ cache = None

\* C8 as stated: a save on an already-filled cache is not accepted, it does
\* not replace the values of the first save.
C8_SecondSaveNotAccepted ==
    (opCall.name = "save" /\ opCall.pre # None) => cache = opCall.pre

\* C8 as amended: a non-empty cache holds the values of exactly one save, the
\* most recent one; a save on an already-filled cache is accepted and replaces
\* what the cache held.
C8_CacheHoldsLastSave ==
    /\ cache # None => cache = lastSaved
    /\ opCall.name = "save" => cache = opCall.args

\* A save on a filled cache has replaced different values.
C8_Witness ==
    /\ opCall.name = "save"
    /\ opCall.pre # None
    /\ opCall.pre # opCall.args
    /\ cache = opCall.args

(***************************************************************************)
(* emgrad/_backends.py: the machine                                        *)
(***************************************************************************)
\* try: import cupy; _CUDA_BACKEND = cupy  except ImportError: _CUDA_BACKEND = None
\* The machine has cupy or not, and cupy sees deviceCount accelerators.
EnvInit ==
    /\ cupyInstalled \in BOOLEAN
    /\ deviceCount \in 0..MaxCuda
    /\ ~cupyInstalled => deviceCount = 0

\* def cuda_available():
\*     return _CUDA_BACKEND is not None and _CUDA_BACKEND.cuda.is_available()
\* (cupy.cuda.is_available() is getDeviceCount() > 0)
cuda_available == cupyInstalled /\ deviceCount > 0

(***************************************************************************)
(* Strings                                                                 *)
(***************************************************************************)
Digits == <<"0", "1", "2", "3", "4", "5", "6", "7", "8", "9">>
IsDigit(c) == \E i \in 1..Len(Digits) : Digits[i] = c
DigitValue(c) == (CHOOSE i \in 1..Len(Digits) : Digits[i] = c) - 1

PyStr(s) == [tag |-> "str", chars |-> s]

\* int(text) of a run of decimal digits
RECURSIVE PyInt(_)
PyInt(ds) ==
    IF Len(ds) = 0 THEN 0
    ELSE 10 * PyInt(SubSeq(ds, 1, Len(ds) - 1)) + DigitValue(ds[Len(ds)])

\* str(n) of an int n >= 0
RECURSIVE IntStr(_)
IntStr(n) ==
    IF n < 10 THEN <<Digits[n + 1]>>
    ELSE IntStr(n \div 10) \o <<Digits[(n % 10) + 1]>>

\* f"{x}" of an Optional[int]
OptIntStr(o) == IF Len(o) = 0 THEN <<"N", "o", "n", "e">> ELSE IntStr(o[1])

StartsWith(s, p) == Len(s) >= Len(p) /\ SubSeq(s, 1, Len(p)) = p

\* The length of the longest run of digits of s that starts at position i.
RECURSIVE DigitRun(_, _)
DigitRun(s, i) ==
    IF i <= Len(s) /\ IsDigit(s[i]) THEN 1 + DigitRun(s, i + 1) ELSE 0

cpu == <<"c", "p", "u">>
cuda == <<"c", "u", "d", "a">>

\* re.match(r"(?P<type>cpu|cuda)(?::(?P<id>\d+))?", s): the pattern is matched
\* at the start of s and need not reach its end; the optional group is greedy
\* and takes ":" and every digit that follows, when at least one does.
ReMatch(s) ==
    LET head == IF StartsWith(s, cpu) THEN cpu
                ELSE IF StartsWith(s, cuda) THEN cuda ELSE <<>>
        n == Len(head)
        run == IF Len(s) > n /\ s[n + 1] = ":" THEN DigitRun(s, n + 2) ELSE 0
    IN  IF head = <<>> THEN None
        ELSE [tag |-> "match",
              type |-> head,
              id |-> IF run > 0 THEN <<SubSeq(s, n + 2, n + 1 + run)>> ELSE <<>>]

\* def _get_type_and_id(device_type): a pair (type, id), or the exception raised
GetTypeAndId(s) ==
    LET m == ReMatch(s)
    IN  IF m # None
        THEN IF m.type = cuda /\ ~cuda_available
             THEN Raised("AssertionError")
             ELSE [tag |-> "pair",
                   type |-> m.type,
                   id |-> IF m.id = <<>> THEN <<>> ELSE <<PyInt(m.id[1])>>]
        ELSE Raised("ValueError")

\* class Device: __init__(self, dev_type: str)
DeviceNew(s) ==
    LET r == GetTypeAndId(s)
    IN  IF r.tag = "pair"
        THEN [tag |-> "Device",
              dev_type |-> r.type,
              dev_id |-> r.id,
              xp |-> IF r.type = cpu THEN "numpy" ELSE "cupy"]
        ELSE r

IsDevice(x) == x.tag = "Device"

\* A variant of Device.__eq__ that compares the kinds alone.
DeviceEqKind(self, other) ==
    /\ IsDevice(other)
    /\ other.dev_type = self.dev_type

\* Device.__eq__(self, other)
DeviceEq(self, other) ==
    /\ IsDevice(other)
    /\ other.dev_type = self.dev_type
    /\ other.dev_id = self.dev_id

\* Device.__str__(self)
DeviceStr(self) ==
    LET id_suffix == IF self.dev_type = cuda THEN <<":">> \o OptIntStr(self.dev_id)
                     ELSE <<>>
    IN  self.dev_type \o id_suffix

\* def parse_device(device): device if isinstance(device, Device) else Device(device)
parse_device(device) == IF IsDevice(device) THEN device ELSE DeviceNew(device.chars)

(***************************************************************************)
(* The descriptor strings the model hands to the program: a head followed  *)
(* by up to MaxSuffix characters.                                          *)
(***************************************************************************)
Heads == {<<>>, cpu, cuda, <<"c", "u", "d">>, <<"x">> \o cpu}
SuffixChars == {":", "0", "1", "x"}
Suffixes == UNION {[1..n -> SuffixChars] : n \in 0..MaxSuffix}
Descriptors == {h \o s : h \in Heads, s \in Suffixes}

\* The strings the specification names: cpu, cuda, cuda:<index>.
ExactDescriptor(s) ==
    \/ s = cpu
    \/ s = cuda
    \/ /\ StartsWith(s, cuda \o <<":">>)
       /\ Len(s) > Len(cuda) + 1
       /\ DigitRun(s, Len(cuda) + 2) = Len(s) - Len(cuda) - 1

(***************************************************************************)
(* parse_device on descriptor strings, and Device(str(d)) of what it made. *)
(***************************************************************************)
ParseDevice == \E s \in Descriptors :
    /\ descriptor' = PyStr(s)
    /\ parsed' = parse_device(PyStr(s))
    /\ reparsed' = None
    /\ UNCHANGED <<envVars, opVars, eqVars, nnVars, moveVars, scopeVars, gradVars>>

Reparse ==
    /\ IsDevice(parsed)
    /\ reparsed = None
    /\ reparsed' = DeviceNew(DeviceStr(parsed))
    /\ UNCHANGED <<descriptor, parsed>>
    /\ UNCHANGED <<envVars, opVars, eqVars, nnVars, moveVars, scopeVars, gradVars>>

InitParse ==
    /\ EnvInit
    /\ NoParse /\ NoOp /\ NoEq /\ NoNN /\ NoMove /\ NoScope /\ NoGrad
NextParse == ParseDevice \/ Reparse
SpecParse == InitParse /\ [][NextParse]_vars

\* C4: parsing succeeds only for the strings that are exactly cpu, cuda or
\* cuda:<index>; every other string fails with the invalid-device error
\* (ValueError) and constructs no Device.
C4_OnlyExactDescriptorsParse ==
    (parsed # None /\ ~ExactDescriptor(descriptor.chars)) =>
        parsed = Raised("ValueError")

\* C10: a Device constructed from the string form of a Device d is a Device
\* equal to d.
C10_DescriptorRoundTrip ==
    reparsed # None => IsDevice(reparsed) /\ DeviceEq(reparsed, parsed)

(***************************************************************************)
(* Device objects and their comparison.                                    *)
(***************************************************************************)
EqDescriptors ==
    {cpu, cpu \o <<":", "0">>, cuda, cuda \o <<":", "0">>, cuda \o <<":", "1">>,
     cuda \o <<":", "0", "1">>, <<"g", "p", "u">>}

\* d = Device(s)
Construct == \E s \in EqDescriptors :
    /\ Len(objs) < MaxObjs
    /\ IsDevice(DeviceNew(s))
    /\ objs' = Append(objs, DeviceNew(s))
    /\ UNCHANGED eqResult
    /\ UNCHANGED <<envVars, opVars, parseVars, nnVars, moveVars, scopeVars, gradVars>>

\* an object that is no Device: the str "cpu"
ConstructOther ==
    /\ Len(objs) < MaxObjs
    /\ objs' = Append(objs, PyStr(cpu))
    /\ UNCHANGED eqResult
    /\ UNCHANGED <<envVars, opVars, parseVars, nnVars, moveVars, scopeVars, gradVars>>

\* a == b, with a a Device
Compare == \E i, j \in 1..Len(objs) :
    /\ IsDevice(objs[i])
    /\ eqResult' = [a |-> i, b |-> j, ret |-> DeviceEq(objs[i], objs[j])]
    /\ UNCHANGED objs
    /\ UNCHANGED <<envVars, opVars, parseVars, nnVars, moveVars, scopeVars, gradVars>>

InitEq ==
    /\ EnvInit
    /\ NoEq /\ NoOp /\ NoParse /\ NoNN /\ NoMove /\ NoScope /\ NoGrad
NextEq == Construct \/ ConstructOther \/ Compare
SpecEq == InitEq /\ [][NextEq]_vars

SameKindAndIndex(a, b) ==
    /\ a.dev_type = b.dev_type
    /\ Len(a.dev_id) = Len(b.dev_id)
    /\ Len(a.dev_id) = 1 => a.dev_id[1] = b.dev_id[1]

DeviceObjs == {i \in 1..Len(objs) : IsDevice(objs[i])}

C7_EqualityInv ==
    /\ \A i \in DeviceObjs : \A j \in 1..Len(objs) :
          DeviceEq(objs[i], objs[j]) <=>
              (j \in DeviceObjs /\ SameKindAndIndex(objs[i], objs[j]))
    /\ \A i \in DeviceObjs : DeviceEq(objs[i], objs[i])
    /\ \A i, j \in DeviceObjs :
          DeviceEq(objs[i], objs[j]) => DeviceEq(objs[j], objs[i])
    /\ \A i, j, k \in DeviceObjs :
          (DeviceEq(objs[i], objs[j]) /\ DeviceEq(objs[j], objs[k]))
              => DeviceEq(objs[i], objs[k])
    /\ eqResult # None =>
          eqResult.ret = (/\ eqResult.b \in DeviceObjs
                          /\ SameKindAndIndex(objs[eqResult.a], objs[eqResult.b]))

C7_Immutable == \A i \in 1..Len(objs) : i <= Len(objs') /\ objs'[i] = objs[i]

\* C7: a == b holds if and only if a and b are Devices of the same kind and
\* the same index (an absent index equals only an absent index); comparison
\* with a non-Device is false; the relation is reflexive, symmetric and
\* transitive; a Device's kind and index do not change after construction.
C7_EqualityByKindAndIndex == []C7_EqualityInv /\ [][C7_Immutable]_vars

\* Two Devices of the same kind and different indices, and a Device and a
\* non-Device, have been compared.
C7_Witness ==
    /\ eqResult # None
    /\ eqResult.ret = FALSE
    /\ eqResult.b \in DeviceObjs
    /\ objs[eqResult.a].dev_type = objs[eqResult.b].dev_type
    /\ \E i \in DeviceObjs : \E j \in 1..Len(objs) :
          j \notin DeviceObjs /\ ~DeviceEq(objs[i], objs[j])

(***************************************************************************)
(* The device of the nn initialisers.                                      *)
(***************************************************************************)
RECURSIVE CudaNames(_)
CudaNames(n) ==
    IF n = 0 THEN <<>>
    ELSE Append(CudaNames(n - 1), cuda \o <<":">> \o IntStr(n - 1))

\* def get_available_devices(): ["cpu"] + [f"cuda:{i}" for i in range(count)]
get_available_devices ==
    IF cupyInstalled THEN <<cpu>> \o CudaNames(deviceCount) ELSE <<cpu>>

InList(x, list) == \E i \in 1..Len(list) : list[i] = x

\* A variant of set_nn_device that does not look the device up.
set_nn_device_unchecked(device) ==
    LET d == DeviceNew(device.chars)
    IN  /\ nnDevice' = IF IsDevice(d) THEN d ELSE nnDevice
        /\ requested' = device

\* def set_nn_device(device: str)
set_nn_device(device) ==
    LET devices == get_available_devices
        d == IF InList(device.chars, devices) THEN DeviceNew(device.chars)
             ELSE DeviceNew(cpu)
    IN  /\ nnDevice' = IF IsDevice(d) THEN d ELSE nnDevice
        /\ requested' = device

\* def get_nn_device(): return _NN_DEVICE
get_nn_device == nnDevice

SetNNDevice == \E s \in Descriptors :
    /\ set_nn_device(PyStr(s))
    /\ UNCHANGED <<envVars, opVars, parseVars, eqVars, moveVars, scopeVars, gradVars>>

\* _NN_DEVICE = Device("cpu")
InitNN ==
    /\ EnvInit
    /\ nnDevice = DeviceNew(cpu)
    /\ requested = None
    /\ NoOp /\ NoParse /\ NoEq /\ NoMove /\ NoScope /\ NoGrad
NextNN == SetNNDevice
SpecNN == InitNN /\ [][NextNN]_vars

HostDevice == [tag |-> "Device", dev_type |-> cpu, dev_id |-> <<>>, xp |-> "numpy"]

\* C9: after any sequence of set_nn_device calls, get_nn_device() is a Device
\* whose string form is a member of get_available_devices(): the requested
\* device when the last requested descriptor is in the list (then its string
\* form is that descriptor), the host cpu device otherwise, and cpu before any
\* call.
C9_NNDeviceAvailable ==
    /\ IsDevice(get_nn_device)
    /\ InList(DeviceStr(get_nn_device), get_available_devices)
    /\ requested = None => get_nn_device = HostDevice
    /\ requested # None =>
          IF InList(requested.chars, get_available_devices)
          THEN DeviceStr(get_nn_device) = requested.chars
          ELSE get_nn_device = HostDevice

\* A request for bare cuda on a machine with an accelerator fell back to cpu.
C9_Witness ==
    /\ requested # None
    /\ requested.chars = cuda
    /\ cuda_available
    /\ get_nn_device = HostDevice

(***************************************************************************)
(* move_to_device                                                          *)
(***************************************************************************)
NdArray(lib, val) == [tag |-> "ndarray", lib |-> lib, val |-> val]

\* The arrays the machine can hold: numpy arrays in host memory and, with an
\* accelerator, cupy arrays in accelerator memory.
Arrays ==
    {NdArray("numpy", v) : v \in ArgTuples}
        \cup (IF cuda_available THEN {NdArray("cupy", v) : v \in ArgTuples} ELSE {})

\* def move_to_device(data, device):
\*     if device == Device("cpu"): return _CUDA_BACKEND.asnumpy(data)
\*     assert cuda_available(), "CUDA is not available."
\*     return cupy.asarray(data)
\* With cupy absent _CUDA_BACKEND is None, and None has no attribute asnumpy.
move_to_device(data, device) ==
    IF DeviceEq(device, DeviceNew(cpu))
    THEN IF cupyInstalled THEN NdArray("numpy", data.val)
         ELSE Raised("AttributeError")
    ELSE IF ~cuda_available THEN Raised("AssertionError")
         ELSE NdArray("cupy", data.val)

MoveDescriptors == {cpu, cuda, cuda \o <<":", "0">>, cuda \o <<":", "1">>}

MoveToDevice == \E data \in Arrays, s \in MoveDescriptors :
    /\ IsDevice(DeviceNew(s))
    /\ moveCall' = [data |-> data,
                    device |-> DeviceNew(s),
                    ret |-> move_to_device(data, DeviceNew(s))]
    /\ UNCHANGED <<envVars, opVars, parseVars, eqVars, nnVars, scopeVars, gradVars>>

InitMove ==
    /\ EnvInit
    /\ NoMove /\ NoOp /\ NoParse /\ NoEq /\ NoNN /\ NoScope /\ NoGrad
NextMove == MoveToDevice
SpecMove == InitMove /\ [][NextMove]_vars

\* C6: moving an array that is already resident on the target succeeds and
\* returns the same data, with or without an accelerator backend installed; a
\* move fails only when the destination is an accelerator that is absent.
C6_MoveToResidentIsNoOp ==
    moveCall # None =>
        /\ (moveCall.device.dev_type = cpu /\ moveCall.data.lib = "numpy")
              => moveCall.ret = moveCall.data
        /\ moveCall.ret.tag # "ndarray"
              => (moveCall.device.dev_type = cuda /\ ~cuda_available)

(***************************************************************************)
(* Scoped execution: `with device:` as the random factories use it.        *)
(***************************************************************************)
\* cupy's runtime.setDevice(id) fails, and changes nothing, for an ordinal the
\* machine does not have.
ValidOrdinal(id) == id >= 0 /\ id < deviceCount

\* Device.__enter__(self):
\*     if self.dev_type == "cpu": return None
\*     return _CUDA_BACKEND.cuda.Device(self.dev_id).__enter__()
\* cupy.cuda.Device(None) is the current device.  cupy's __enter__ pushes the
\* current device on its thread-local stack and then makes its own device
\* current.  The result is the state after the call and whether it raised.
DeviceEnter(self) ==
    IF self.dev_type = cpu
    THEN [current |-> current, stack |-> deviceStack, raised |-> FALSE]
    ELSE LET id == IF self.dev_id = <<>> THEN current ELSE self.dev_id[1]
         IN  IF id = current
             THEN [current |-> current, stack |-> Append(deviceStack, current),
                   raised |-> FALSE]
             ELSE IF ValidOrdinal(id)
             THEN [current |-> id, stack |-> Append(deviceStack, current),
                   raised |-> FALSE]
             ELSE [current |-> current, stack |-> Append(deviceStack, current),
                   raised |-> TRUE]

\* Device.__exit__(self, *args):
\*     if self.dev_type == "cpu": return None
\*     return _CUDA_BACKEND.cuda.Device(self.dev_id).__exit__(*args)
\* cupy's __exit__ pops its thread-local stack and makes that device current;
\* it returns None, so an exception of the block propagates.
DeviceExit(self) ==
    IF self.dev_type = cpu
    THEN [current |-> current, stack |-> deviceStack]
    ELSE [current |-> deviceStack[Len(deviceStack)],
          stack |-> SubSeq(deviceStack, 1, Len(deviceStack) - 1)]

ScopeDescriptors ==
    {cpu, cuda} \cup {cuda \o <<":">> \o IntStr(i) : i \in 0..MaxCuda}

\* `with device:` is reached: device.__enter__() runs, and the block is entered
\* unless it raised.
WithEnter == \E s \in ScopeDescriptors :
    /\ ~exc
    /\ Len(frames) < MaxDepth
    /\ Len(deviceStack) < MaxDepth
    /\ IsDevice(DeviceNew(s))
    /\ LET r == DeviceEnter(DeviceNew(s))
       IN  /\ current' = r.current
           /\ deviceStack' = r.stack
           /\ exc' = r.raised
           /\ frames' = IF r.raised THEN frames
                        ELSE Append(frames, [dev |-> DeviceNew(s), before |-> current])
    /\ UNCHANGED lastExit
    /\ UNCHANGED <<envVars, opVars, parseVars, eqVars, nnVars, moveVars, gradVars>>

\* the code of a block raises (device.xp.random.rand(shape).astype(dtype) fails)
BlockRaises ==
    /\ ~exc
    /\ frames # <<>>
    /\ exc' = TRUE
    /\ UNCHANGED <<current, deviceStack, frames, lastExit>>
    /\ UNCHANGED <<envVars, opVars, parseVars, eqVars, nnVars, moveVars, gradVars>>

\* the innermost block is left, at its end or by the exception that propagates:
\* device.__exit__(...) runs
WithExit ==
    /\ frames # <<>>
    /\ LET f == frames[Len(frames)]
           r == DeviceExit(f.dev)
       IN  /\ current' = r.current
           /\ deviceStack' = r.stack
           /\ lastExit' = [before |-> f.before, after |-> r.current]
    /\ frames' = SubSeq(frames, 1, Len(frames) - 1)
    /\ UNCHANGED exc
    /\ UNCHANGED <<envVars, opVars, parseVars, eqVars, nnVars, moveVars, gradVars>>

\* the caller handles the exception (try / except around the call)
Handle ==
    /\ exc
    /\ exc' = FALSE
    /\ UNCHANGED <<current, deviceStack, frames, lastExit>>
    /\ UNCHANGED <<envVars, opVars, parseVars, eqVars, nnVars, moveVars, gradVars>>

InitScope ==
    /\ EnvInit
    /\ NoScope /\ NoOp /\ NoParse /\ NoEq /\ NoNN /\ NoMove /\ NoGrad
NextScope == WithEnter \/ BlockRaises \/ WithExit \/ Handle
SpecScope == InitScope /\ [][NextScope]_vars

\* C5: whether a block ends normally or by an exception, the ambient
\* accelerator after leaving a scope is the ambient accelerator from just
\* before the scope was entered.
C5_AmbientRestored ==
    lastExit # None => lastExit.after = lastExit.before

(***************************************************************************)
(* The autograd engine: graph construction by the forward calls and the    *)
(* reverse traversal started from a terminal tensor.  Tensors are numbered *)
(* in creation order; gradients are integers.                              *)
(***************************************************************************)
Nodes == 1..Len(parents)
IsLeaf(n) == parents[n] = <<>>
Terminal == Len(parents)

\* The local derivative creator_op.backward returns for input i of node n.
LocalWeight(n, i) == n + i

\* creator_op.backward(dy): one gradient per input, in the inputs' order
OpBackward(n, dy) == [i \in 1..Len(parents[n]) |-> dy * LocalWeight(n, i)]

\* A variant of the accumulation in which an arriving gradient replaces the
\* pending one.
AccumulateReplace(acc, g) == g

\* elementwise add of a local gradient into a pending-gradient slot
Accumulate(acc, g) == acc + g

Reverse(s) == [i \in 1..Len(s) |-> s[Len(s) + 1 - i]]

\* A variant of the ordering that appends a node before its parents are visited.
RECURSIVE VisitPre(_, _), VisitAllPre(_, _, _)
VisitPre(n, st) ==
    IF n \in st.visited THEN st
    ELSE VisitAllPre(parents[n], 1,
                     [visited |-> st.visited \cup {n}, order |-> Append(st.order, n)])
VisitAllPre(ps, i, st) ==
    IF i > Len(ps) THEN st ELSE VisitAllPre(ps, i + 1, VisitPre(ps[i], st))
BuildTopoPre(t) == VisitPre(t, [visited |-> {}, order |-> <<>>]).order

\* The depth-first traversal from the terminal: a node is marked visited once,
\* its parents are visited in order, and the node is appended after them; the
\* traversal order is that sequence reversed, terminal first.
RECURSIVE Visit(_, _), VisitAll(_, _, _)
Visit(n, st) ==
    IF n \in st.visited THEN st
    ELSE LET st1 == VisitAll(parents[n], 1,
                             [visited |-> st.visited \cup {n}, order |-> st.order])
         IN  [visited |-> st1.visited, order |-> Append(st1.order, n)]
VisitAll(ps, i, st) ==
    IF i > Len(ps) THEN st ELSE VisitAll(ps, i + 1, Visit(ps[i], st))
BuildTopo(t) == Reverse(Visit(t, [visited |-> {}, order |-> <<>>]).order)

\* The pending gradients after node n's creator_op.backward(dy) has run: each
\* parent that requires grad has its share added, input by input.
RECURSIVE Distribute(_, _, _, _)
Distribute(n, local, i, pend) ==
    IF i > Len(parents[n]) THEN pend
    ELSE LET p == parents[n][i]
         IN  Distribute(n, local, i + 1,
                        IF reqGrad[p]
                        THEN [pend EXCEPT ![p] = Accumulate(pend[p], local[i])]
                        ELSE pend)

\* a tensor made directly (from data, or by a factory or random function)
NewLeaf == \E req \in BOOLEAN :
    /\ phase = "build"
    /\ Len(parents) < NumNodes
    /\ parents' = Append(parents, <<>>)
    /\ reqGrad' = Append(reqGrad, req)
    /\ UNCHANGED <<phase, topo, pos, pending, grad, bwCount>>
    /\ UNCHANGED <<envVars, opVars, parseVars, eqVars, nnVars, moveVars, scopeVars>>

OpInputs == UNION {[1..k -> Nodes] : k \in {1, 2}}

\* a differentiable function of one or two tensors: the output requires grad if
\* an input does, and only then records its creator_op and parents
ApplyOp == \E inputs \in OpInputs :
    /\ phase = "build"
    /\ Len(parents) < NumNodes
    /\ LET req == \E i \in 1..Len(inputs) : reqGrad[inputs[i]]
       IN  /\ parents' = Append(parents, IF req THEN inputs ELSE <<>>)
           /\ reqGrad' = Append(reqGrad, req)
    /\ UNCHANGED <<phase, topo, pos, pending, grad, bwCount>>
    /\ UNCHANGED <<envVars, opVars, parseVars, eqVars, nnVars, moveVars, scopeVars>>

\* backward() on the tensor made last: the seed is 1, the order is built
Backward ==
    /\ phase = "build"
    /\ Len(parents) > 0
    /\ reqGrad[Terminal]
    /\ phase' = "ordered"
    /\ topo' = BuildTopo(Terminal)
    /\ pos' = 1
    /\ pending' = [n \in Nodes |-> IF n = Terminal THEN 1 ELSE 0]
    /\ grad' = [n \in Nodes |-> <<>>]
    /\ bwCount' = [n \in Nodes |-> 0]
    /\ UNCHANGED <<parents, reqGrad>>
    /\ UNCHANGED <<envVars, opVars, parseVars, eqVars, nnVars, moveVars, scopeVars>>

\* the walk of the order, front to back: the node's creator_op.backward runs on
\* the gradient accumulated for the node and its parents receive their shares;
\* a leaf that requires grad has its accumulator added to Tensor.grad
Propagate ==
    /\ phase = "ordered"
    /\ LET n == topo[pos]
       IN  IF IsLeaf(n)
           THEN /\ grad' = IF reqGrad[n]
                           THEN [grad EXCEPT ![n] =
                                    <<(IF @ = <<>> THEN 0 ELSE @[1]) + pending[n]>>]
                           ELSE grad
                /\ UNCHANGED <<pending, bwCount>>
           ELSE /\ pending' = Distribute(n, OpBackward(n, pending[n]), 1, pending)
                /\ bwCount' = [bwCount EXCEPT ![n] = @ + 1]
                /\ UNCHANGED grad
    /\ pos' = pos + 1
    /\ phase' = IF pos = Len(topo) THEN "done" ELSE "ordered"
    /\ UNCHANGED <<parents, reqGrad, topo>>
    /\ UNCHANGED <<envVars, opVars, parseVars, eqVars, nnVars, moveVars, scopeVars>>

InitGrad ==
    /\ parents = <<>>
    /\ reqGrad = <<>>
    /\ phase = "build"
    /\ topo = <<>>
    /\ pos = 0
    /\ pending = <<>>
    /\ grad = <<>>
    /\ bwCount = <<>>
    /\ NoEnv /\ NoOp /\ NoParse /\ NoEq /\ NoNN /\ NoMove /\ NoScope
NextGrad == NewLeaf \/ ApplyOp \/ Backward \/ Propagate
SpecGrad == InitGrad /\ [][NextGrad]_vars

\* ---- what the claims about the traversal are stated with
InputsOf(n) == {parents[n][i] : i \in 1..Len(parents[n])}

RECURSIVE ReachFrom(_)
ReachFrom(S) ==
    LET T == S \cup UNION {InputsOf(n) : n \in S}
    IN  IF T = S THEN S ELSE ReachFrom(T)
Reachable == ReachFrom({Terminal})

IndexIn(s, n) == CHOOSE i \in 1..Len(s) : s[i] = n

RECURSIVE SumOver(_, _)
SumOver(f, S) ==
    IF S = {} THEN 0
    ELSE LET e == CHOOSE x \in S : TRUE IN f[e] + SumOver(f, S \ {e})

\* The edges into x from the reachable nodes: <<consumer, input position>>.
EdgesInto(x) ==
    {e \in Reachable \X {1, 2} : e[2] <= Len(parents[e[1]]) /\ parents[e[1]][e[2]] = x}

\* The gradient of the terminal with respect to n, path by path: the seed at
\* the terminal, and elsewhere the sum over the edges into n of the consumer's
\* gradient times the edge's local derivative.
RECURSIVE PathSum(_)
PathSum(n) ==
    IF n = Terminal THEN 1
    ELSE SumOver([e \in EdgesInto(n) |-> PathSum(e[1]) * LocalWeight(e[1], e[2])],
                 EdgesInto(n))

\* x feeds two different operators whose outputs both feed a third operator
\* that produces the terminal.
Diamond(x) ==
    \E a, b \in Nodes :
        /\ a # b
        /\ x \in InputsOf(a) /\ x \in InputsOf(b)
        /\ a \in InputsOf(Terminal) /\ b \in InputsOf(Terminal)

\* C2: after a backward pass from the terminal, the grad of a leaf that
\* requires grad is the sum of the contributions of all the edges into it (in
\* a diamond, of both paths): contributions are added per parent, none is
\* overwritten by a later one.
C2_DiamondGradIsSum ==
    phase = "done" =>
        \A x \in Reachable :
            (IsLeaf(x) /\ reqGrad[x]) => grad[x] = <<PathSum(x)>>

\* A backward pass over a diamond on a leaf that requires grad has finished.
C2_Witness ==
    /\ phase = "done"
    /\ \E x \in Nodes : IsLeaf(x) /\ reqGrad[x] /\ Diamond(x)

Processed(n) == \E i \in 1..Len(topo) : topo[i] = n /\ i < pos

\* C3: every node reachable from the terminal is in the traversal order
\* exactly once and before each of its parents; a node's creator_op.backward
\* is invoked at most once, exactly once when the pass is over, and only after
\* every reachable consumer of the node has propagated to it.
C3_EachNodeOnceChildrenFirst ==
    phase \in {"ordered", "done"} =>
        /\ {topo[i] : i \in 1..Len(topo)} = Reachable
        /\ \A i, j \in 1..Len(topo) : topo[i] = topo[j] => i = j
        /\ \A n \in Reachable : \A p \in InputsOf(n) :
              IndexIn(topo, n) < IndexIn(topo, p)
        /\ \A n \in Nodes : bwCount[n] <= 1
        /\ \A n \in Nodes : \A c \in Reachable :
              (n \in InputsOf(c) /\ (bwCount[n] = 1 \/ Processed(n)))
                  => bwCount[c] = 1
        /\ phase = "done" =>
              \A n \in Nodes : bwCount[n] = 1 <=> (n \in Reachable /\ ~IsLeaf(n))

\* A pass is over in which a node made by an operator had two consumers, one
\* of them consuming the other.
C3_Witness ==
    /\ phase = "done"
    /\ \E n, a \in Nodes :
          /\ ~IsLeaf(n)
          /\ bwCount[n] = 1
          /\ n \in InputsOf(a)
          /\ a \in InputsOf(Terminal)
          /\ n \in InputsOf(Terminal)
          /\ a # Terminal

====
